---- MODULE Spec2Model ----
(***************************************************************************)
(* NoteKeeper: the synchronisation policy of assets/js/app.js between the  *)
(* browser's localStorage ("savedNotes") and the remote note service       *)
(* reached through the NoteKeeper class (api.js).                          *)
(*                                                                         *)
(* JavaScript runs one callback at a time; an async handler runs without   *)
(* interruption up to its `await`, and its continuation runs as a later    *)
(* callback.  Each handler is therefore one action up to the await and one *)
(* action (..Resume) for the continuation; the handler's local variables   *)
(* live in `tasks` in between.  The service answers a request when the     *)
(* continuation runs: what it answers is an input of the Resume action.    *)
(*                                                                         *)
(* Log messages are the source's, with the accents dropped.                *)
(***************************************************************************)
EXTENDS Integers, Sequences, FiniteSets, Bags, TLC

\* ---------------------------------------------------------------- bounds
MaxId    == 2      \* ids the service hands out: 1..MaxId
MaxTasks == 2      \* handlers suspended at an await at the same time
MaxLog   == 4      \* entries of the operation log of one page

\* trimmed, non-empty contents: of the creation form, and of a note's textarea
CreateContents == {"a"}
UpdateContents == {"a", "b"}

VARIABLES
  online,    \* navigator.onLine
  store,     \* localStorage item "savedNotes" (the stored text, or absent)
  ui,        \* children of #notes-container, in order (one per addNoteToUI)
  log,       \* children of #logs-container, in order
  tasks,     \* handlers suspended at their await, with their locals
  remote,    \* the notes held by the service behind BASE_URL
  nextId,    \* the next id the service hands out
  ready,     \* DOMContentLoaded has fired: app.init ran, listeners attached
  last,      \* history: the handler step just taken
  caches,    \* CacheStorage of the origin: its regions, in creation order
  worker,    \* lifecycle state of the service worker (service-worker.js)
  swTasks,   \* listeners of the worker suspended at a promise
  swLast     \* history: the listener step of the worker just taken

\* the page's part of the state, and the service worker's
appVars == <<online, store, ui, log, tasks, remote, nextId, ready, last>>
swVars == <<caches, worker, swTasks, swLast>>

vars == <<appVars, swVars>>

\* ------------------------------------------------------------ data model
\* @typedef Note {id, note}
Note(id, text) == [id |-> id, note |-> text]

NoNote == Note(0, "")

RECURSIVE SelectNotesFirstOnly(_, _)
\* mutant of SelectNotes: only the first entry of that id is removed
SelectNotesFirstOnly(s, noteId) ==
  IF s = <<>> THEN <<>>
  ELSE IF Head(s).id # noteId
       THEN <<Head(s)>> \o SelectNotesFirstOnly(Tail(s), noteId)
       ELSE Tail(s)

RECURSIVE SelectNotes(_, _)
\* Array.prototype.filter with the predicate (n) => n.id !== noteId
SelectNotes(s, noteId) ==
  IF s = <<>> THEN <<>>
  ELSE IF Head(s).id # noteId
       THEN <<Head(s)>> \o SelectNotes(Tail(s), noteId)
       ELSE SelectNotes(Tail(s), noteId)

\* mutant of MapReplace: the id test is dropped, every entry becomes the note
MapReplaceAll(s, note) == [i \in 1..Len(s) |-> note]

\* mutant of MapReplace: a note whose id is missing is appended (upsert)
MapUpsert(s, note) ==
  IF \E i \in 1..Len(s) : s[i].id = note.id
  THEN [i \in 1..Len(s) |-> IF s[i].id = note.id THEN note ELSE s[i]]
  ELSE Append(s, note)

\* Array.prototype.map with (savedNote) => savedNote.id === note.id ? note : savedNote
MapReplace(s, note) ==
  [i \in 1..Len(s) |-> IF s[i].id = note.id THEN note ELSE s[i]]

\* removeChild: the sequence without its i-th element
RemoveAt(s, i) == [j \in 1..(Len(s) - 1) |-> IF j < i THEN s[j] ELSE s[j + 1]]

\* ---------------------------------------------------------- localStorage
\* A JavaScript value handed to setInLocalStorage: an array of notes, or
\* undefined (data.notes of a payload without notes).
ArrayValue(s) == [type |-> "array", elems |-> s]
UndefinedValue == [type |-> "undefined", elems |-> <<>>]

\* The stored item: absent (getItem gives null), or a text.  JSON text of an
\* array is kept as its list of <<id, note>> members; "undefined" is the text
\* setItem stores when JSON.stringify gives undefined.
AbsentItem == [text |-> "absent", members |-> <<>>]
UndefinedText == [text |-> "undefined", members |-> <<>>]

\* JSON.stringify(value) followed by setItem's conversion to a string
JSONstringify(value) ==
  IF value.type = "array"
  THEN [text |-> "json",
        members |-> [i \in 1..Len(value.elems) |->
                       <<value.elems[i].id, value.elems[i].note>>]]
  ELSE UndefinedText

\* JSON.parse(item): threw is the SyntaxError; null parses to null
JSONparse(item) ==
  IF item.text = "json"
  THEN [threw |-> FALSE, isNull |-> FALSE,
        elems |-> [i \in 1..Len(item.members) |->
                     Note(item.members[i][1], item.members[i][2])]]
  ELSE IF item.text = "absent"
       THEN [threw |-> FALSE, isNull |-> TRUE, elems |-> <<>>]
       ELSE [threw |-> TRUE, isNull |-> FALSE, elems |-> <<>>]

\* JSON.parse(localStorage.getItem(key)) || []
getFromLocalStorage(item) ==
  LET p == JSONparse(item)
  IN  [threw |-> p.threw, val |-> IF p.threw \/ p.isNull THEN <<>> ELSE p.elems]

\* localStorage.setItem(key, JSON.stringify(value)): the new item
setInLocalStorage(value) == JSONstringify(value)

\* ------------------------------------------------------------- DOM pieces
\* logOperation(operation, isSuccess): one more child of #logs-container.  An
\* entry is kept as its styling class, log--success (TRUE) or log--error
\* (FALSE); its text and date are presentation only.
logOperation(l, operation, isSuccess) == Append(l, isSuccess)

\* addNoteToUI(note): one more child of #notes-container
addNoteToUI(u, note) == Append(u, note)

\* notes.forEach(app.addNoteToUI)
RECURSIVE addAllToUI(_, _)
addAllToUI(u, notes) ==
  IF notes = <<>> THEN u ELSE addAllToUI(addNoteToUI(u, Head(notes)), Tail(notes))

\* ---------------------------------------------------------------- tasks
\* A handler suspended at its await: which handler, the savedNotes it read
\* before the await, its argument, and navigator.onLine when it was invoked.
\* `tasks` is the bag of them.
Task(op, saved, arg) == [op |-> op, saved |-> saved, arg |-> arg, at |-> online]

\* a handler suspends at `await NoteKeeper.<op>(...)`: one request goes out
Suspend(op, saved, arg) == tasks (+) SetToBag({Task(op, saved, arg)})

\* the continuation of suspended handler k runs
Resume(k) == tasks (-) SetToBag({k})

\* what an await gives: a thrown error, a note, an array of notes,
\* undefined (a payload without the field), or response.ok
Resp(kind, notes) == [kind |-> kind, notes |-> notes]

NoResp == Resp("none", <<>>)

\* History record of the handler step just taken.
\*   op: the handler; stage: "await" (suspended at its await) or "done";
\*   resumed: the step is the continuation after the await;
\*   at: navigator.onLine when the handler was invoked;
\*   threw: getFromLocalStorage threw; saved: the savedNotes it read;
\*   arg: the handler's argument; got: what the await gave;
\*   ret: how the handler's promise settled; reqs: requests it has issued;
\*   pre: the state the step started from.
Step(op, stage, resumed, at, threw, saved, arg, got, ret, reqs, pre) ==
  [op |-> op, stage |-> stage, resumed |-> resumed, at |-> at, threw |-> threw,
   saved |-> saved, arg |-> arg, got |-> got, ret |-> ret, reqs |-> reqs,
   pre |-> pre]

\* the state a step of the open document starts from
Pre == [store |-> store, ui |-> ui, log |-> log, tasks |-> tasks, remote |-> remote]

\* the state app.init starts from: a new document
FreshPre ==
  [store |-> store, ui |-> <<>>, log |-> <<>>, tasks |-> EmptyBag, remote |-> remote]

NoPre ==
  [store |-> AbsentItem, ui |-> <<>>, log |-> <<>>, tasks |-> EmptyBag, remote |-> <<>>]

\* a step of the environment (connectivity event, another client)
EnvStep(op) ==
  Step(op, "done", FALSE, FALSE, FALSE, <<>>, NoNote, NoResp, "none", 0, NoPre)

\* ------------------------------------------------ service worker: its state
\* One region of CacheStorage: its name and the URLs it holds a response for
\* (the response stored under a URL is the one the region's owner fetched).
Region(name, urls) == [name |-> name, urls |-> urls]

\* A listener of the worker suspended at a promise: install at cache.addAll,
\* activate at caches.keys() (names: what keys() resolves to), fetch at
\* fetch(event.request) (url: the request's).
SwTask(op, url, names) == [op |-> op, url |-> url, names |-> names]

\* History record of the listener step just taken.
\*   op: "install", "activate", "fetch" (or a step of the platform);
\*   stage: "await" or "done"; url: the request of a fetch event;
\*   held: the region CACHE_NAME held the url when the event was handled;
\*   source: "cache", "network" or "error" - what answered the fetch event;
\*   region: name of the region a cached answer came from;
\*   fetched: the listener issued a network fetch for the event;
\*   bad: positions of urlsToCache whose fetch failed during install;
\*   pre: `caches` when the step started.
SwStep(op, stage, url, held, source, region, fetched, bad, pre) ==
  [op |-> op, stage |-> stage, url |-> url, held |-> held, source |-> source,
   region |-> region, fetched |-> fetched, bad |-> bad, pre |-> pre]

\* a step of the platform (registration, another version of the worker)
SwEnvStep(op) == SwStep(op, "done", "", FALSE, "none", "", FALSE, {}, <<>>)

\* No worker is registered.  The page's requests to BASE_URL then go straight
\* to the network; an active worker passes them through as well, since no
\* region holds BASE_URL (fetch listener: miss, then fetch(event.request)).
SwIdle ==
  /\ caches = <<>>
  /\ worker = "none"
  /\ swTasks = {}
  /\ swLast = SwEnvStep("none")

\* ------------------------------------------------------------------ Init
Init ==
  /\ online \in BOOLEAN
  /\ store = AbsentItem
  /\ ui = <<>>
  /\ log = <<>>
  /\ tasks = EmptyBag
  /\ remote = <<>>
  /\ nextId = 1
  /\ ready = FALSE
  /\ last = EnvStep("none")
  /\ SwIdle

\* ------------------------------------------------------ the remote service
\* What the service does with a request and what the NoteKeeper method then
\* gives the handler: [remote, nextId, resp].
Served(r, n, resp) == [remote |-> r, nextId |-> n, resp |-> resp]

\* NoteKeeper.getAll(): GET /, then data.notes
\*   "notes": the payload holds the service's notes
\*   "other": a payload without notes (data.notes is undefined)
\*   "unreached": fetch or response.json() throws
getAll(outcome) ==
  Served(remote, nextId,
         IF outcome = "notes" THEN Resp("notes", remote)
         ELSE IF outcome = "other" THEN Resp("undefined", <<>>)
         ELSE Resp("throw", <<>>))

GetAllOutcomes == {"notes", "other", "unreached"}

\* NoteKeeper.create(note): POST / {note}, then data.note
\*   "created": the service stores the note under a fresh id and returns it
\*   "lost": the service stores it, the response is lost (fetch throws)
\*   "other": a payload without note, nothing stored
\*   "unreached": fetch throws, nothing stored
create(outcome, content) ==
  LET n == Note(nextId, content) IN
  IF outcome = "created"
  THEN Served(Append(remote, n), nextId + 1, Resp("note", <<n>>))
  ELSE IF outcome = "lost"
  THEN Served(Append(remote, n), nextId + 1, Resp("throw", <<>>))
  ELSE IF outcome = "other"
  THEN Served(remote, nextId, Resp("undefined", <<>>))
  ELSE Served(remote, nextId, Resp("throw", <<>>))

CreateOutcomes ==
  {"other", "unreached"} \cup (IF nextId <= MaxId THEN {"created", "lost"} ELSE {})

\* NoteKeeper.update(note): PUT / {notes: [note]}, then response.ok
\*   "ok": the service replaces the note by id, response.ok is true
\*   "lost": the service replaces it, the response is lost (fetch throws)
\*   "notok": response.ok is false, nothing replaced
\*   "unreached": fetch throws, nothing replaced
update(outcome, note) ==
  IF outcome = "ok"
  THEN Served(MapReplace(remote, note), nextId, Resp("ok", <<>>))
  ELSE IF outcome = "lost"
  THEN Served(MapReplace(remote, note), nextId, Resp("throw", <<>>))
  ELSE IF outcome = "notok"
  THEN Served(remote, nextId, Resp("notok", <<>>))
  ELSE Served(remote, nextId, Resp("throw", <<>>))

UpdateOutcomes == {"ok", "lost", "notok", "unreached"}

\* DELETE / {ids: [id]} by another client of the same endpoint
\* (NoteKeeper.delete; app.js itself never calls it)
otherClientDelete(i) ==
  /\ remote' = RemoveAt(remote, i)
  /\ last' = EnvStep("other")
  /\ UNCHANGED <<online, store, ui, log, tasks, nextId, ready>>
  /\ UNCHANGED swVars

\* ------------------------------------------------- connectivity and errors
\* mutant of isOnline: the connectivity check always passes
isOnlineAlways == TRUE

\* app.isOnline(): navigator.onLine, read when the handler asks
isOnline == online

\* error.message of what a handler's catch receives
OfflineCreateMsg == "Impossible de creer la note"
CreateFailedMsg  == "Erreur lors de la creation de la note."
OfflineUpdateMsg == "Impossible de mettre a jour la note hors ligne."
UpdateFailedMsg  == "Erreur lors de la mise a jour de la note."
OfflineDeleteMsg == "Impossible de supprimer la note hors ligne."
LoadFailedMsg    == "Erreur lors du chargement des notes"
SyntaxErrorMsg   == "SyntaxError: JSON.parse"
FetchErrorMsg    == "TypeError: Failed to fetch"

\* window "online" / "offline" listeners of attachDOMEvents
connectivityChange ==
  /\ ready
  /\ Len(log) < MaxLog
  /\ online' = ~online
  /\ log' = logOperation(log, IF online' THEN "En ligne" ELSE "Hors ligne", TRUE)
  /\ last' = Step(IF online' THEN "online" ELSE "offline", "done", FALSE, online,
                  FALSE, <<>>, NoNote, NoResp, "none", 0, Pre)
  /\ UNCHANGED <<store, ui, tasks, remote, nextId, ready>>
  /\ UNCHANGED swVars

\* -------------------------------------------------------- handleCreateNote
\* mutant of newNoteMissing: connectivity is read again after the await
newNoteMissingOrOffline(resp) == resp.kind # "note" \/ ~online

\* `!newNote` after the await: the response carried no note
newNoteMissing(resp) == resp.kind # "note"

\* mutant of pushNote: unshift instead of push
pushNoteFront(savedNotes, newNote) == <<newNote>> \o savedNotes

\* mutant of pushNote: the store is read again after the await
pushNoteOnFreshRead(savedNotes, newNote) ==
  Append(getFromLocalStorage(store).val, newNote)

\* savedNotes.push(newNote)
pushNote(savedNotes, newNote) == Append(savedNotes, newNote)

\* handleCreateNote(noteContent) up to its await (createNoteHandler passes the
\* trimmed, non-empty content of the form)
handleCreateNote(noteContent) ==
  LET savedNotes == getFromLocalStorage(store)
      arg == Note(0, noteContent)
  IN
  /\ ready
  /\ IF savedNotes.threw
     THEN /\ Len(log) < MaxLog
          /\ log' = logOperation(log, SyntaxErrorMsg, FALSE)
          /\ last' = Step("create", "done", FALSE, online, TRUE, <<>>, arg,
                          NoResp, "false", 0, Pre)
          /\ UNCHANGED tasks
     ELSE IF ~isOnline
     THEN /\ Len(log) < MaxLog
          /\ log' = logOperation(log, OfflineCreateMsg, FALSE)
          /\ last' = Step("create", "done", FALSE, online, FALSE, savedNotes.val, arg,
                          NoResp, "false", 0, Pre)
          /\ UNCHANGED tasks
     ELSE /\ BagCardinality(tasks) < MaxTasks
          /\ tasks' = Suspend("create", savedNotes.val, arg)
          /\ last' = Step("create", "await", FALSE, online, FALSE, savedNotes.val, arg,
                          NoResp, "pending", 1, Pre)
          /\ UNCHANGED log
  /\ UNCHANGED <<online, store, ui, remote, nextId, ready>>
  /\ UNCHANGED swVars

\* mutant of createCatch: the failed note is kept as a local-only note
createCatchKeepsDraft(k, got, msg) ==
  /\ log' = logOperation(log, msg, FALSE)
  /\ last' = Step("create", "done", TRUE, k.at, FALSE, k.saved, k.arg, got,
                  "false", 1, Pre)
  /\ store' = setInLocalStorage(ArrayValue(Append(k.saved, k.arg)))
  /\ ui' = addNoteToUI(ui, k.arg)

\* the catch block of handleCreateNote, reached from after the await
createCatch(k, got, msg) ==
  /\ log' = logOperation(log, msg, FALSE)
  /\ last' = Step("create", "done", TRUE, k.at, FALSE, k.saved, k.arg, got,
                  "false", 1, Pre)
  /\ UNCHANGED <<store, ui>>

\* handleCreateNote after `await NoteKeeper.create(noteContent)`
handleCreateNoteResume(k, outcome) ==
  LET served == create(outcome, k.arg.note)
      newNote == served.resp
      failed(msg) == createCatch(k, newNote, msg)
  IN
  /\ k.op = "create"
  /\ Len(log) < MaxLog
  /\ tasks' = Resume(k)
  /\ remote' = served.remote
  /\ nextId' = served.nextId
  /\ IF newNote.kind = "throw"
     THEN failed(FetchErrorMsg)
     ELSE IF newNoteMissing(newNote)
     THEN failed(CreateFailedMsg)
     ELSE /\ store' = setInLocalStorage(ArrayValue(pushNote(k.saved, newNote.notes[1])))
          /\ ui' = addNoteToUI(ui, newNote.notes[1])
          /\ log' = logOperation(log, "Creation d'une note", TRUE)
          /\ last' = Step("create", "done", TRUE, k.at, FALSE, k.saved, k.arg,
                          newNote, "true", 1, Pre)
  /\ UNCHANGED <<online, ready>>
  /\ UNCHANGED swVars

\* -------------------------------------------------------- handleUpdateNote
\* mutant of updateConfirmed: any response that arrived counts as success
updateConfirmedIfAnswered(resp) == resp.kind # "throw"

\* `await NoteKeeper.update(note)` is truthy: response.ok
updateConfirmed(resp) == resp.kind = "ok"

\* handleUpdateNote(note) up to its await; the submit listener of the i-th
\* note element passes {id: note.id, note: <trimmed textarea content>}
handleUpdateNote(i, content) ==
  LET savedNotes == getFromLocalStorage(store)
      note == Note(ui[i].id, content)
  IN
  /\ ready
  /\ IF savedNotes.threw
     THEN /\ Len(log) < MaxLog
          /\ log' = logOperation(log, SyntaxErrorMsg, FALSE)
          /\ last' = Step("update", "done", FALSE, online, TRUE, <<>>, note,
                          NoResp, "undefined", 0, Pre)
          /\ UNCHANGED tasks
     ELSE IF ~isOnline
     THEN /\ Len(log) < MaxLog
          /\ log' = logOperation(log, OfflineUpdateMsg, FALSE)
          /\ last' = Step("update", "done", FALSE, online, FALSE, savedNotes.val, note,
                          NoResp, "undefined", 0, Pre)
          /\ UNCHANGED tasks
     ELSE /\ BagCardinality(tasks) < MaxTasks
          /\ tasks' = Suspend("update", savedNotes.val, note)
          /\ last' = Step("update", "await", FALSE, online, FALSE, savedNotes.val, note,
                          NoResp, "pending", 1, Pre)
          /\ UNCHANGED log
  /\ UNCHANGED <<online, store, ui, remote, nextId, ready>>
  /\ UNCHANGED swVars

\* handleUpdateNote after `await NoteKeeper.update(note)`
handleUpdateNoteResume(k, outcome) ==
  LET served == update(outcome, k.arg)
      failed(msg) ==
        /\ log' = logOperation(log, msg, FALSE)
        /\ UNCHANGED store
  IN
  /\ k.op = "update"
  /\ Len(log) < MaxLog
  /\ tasks' = Resume(k)
  /\ remote' = served.remote
  /\ nextId' = served.nextId
  /\ IF served.resp.kind = "throw"
     THEN failed(FetchErrorMsg)
     ELSE IF ~updateConfirmed(served.resp)
     THEN failed(UpdateFailedMsg)
     ELSE /\ store' = setInLocalStorage(ArrayValue(MapReplace(k.saved, k.arg)))
          /\ log' = logOperation(log, "Mise a jour d'une note", TRUE)
  /\ last' = Step("update", "done", TRUE, k.at, FALSE, k.saved, k.arg,
                          served.resp, "undefined", 1, Pre)
  /\ UNCHANGED <<online, ui, ready>>
  /\ UNCHANGED swVars

\* -------------------------------------------------------- handleDeleteNote
\* mutant of serviceAfterDelete: NoteKeeper.delete(noteId) is called and served
serviceAfterRemoteDelete(r, noteId) == SelectNotes(r, noteId)

\* what the service holds when handleDeleteNote is done: the handler calls no
\* method of NoteKeeper (NoteKeeper.delete has no caller), the service's notes
\* are as they were
serviceAfterDelete(r, noteId) == r

\* handleDeleteNote(noteId, noteElement), bound by addNoteToUI to the click of
\* the i-th note element's delete button; it has no await
handleDeleteNote(i) ==
  LET savedNotes == getFromLocalStorage(store)
      noteId == ui[i].id
      arg == Note(noteId, "")
  IN
  /\ ready
  /\ Len(log) < MaxLog
  /\ IF savedNotes.threw
     THEN /\ log' = logOperation(log, SyntaxErrorMsg, FALSE)
          /\ last' = Step("delete", "done", FALSE, online, TRUE, <<>>, arg,
                          NoResp, "undefined", 0, Pre)
          /\ UNCHANGED <<store, ui>>
     ELSE IF ~isOnline
     THEN /\ log' = logOperation(log, OfflineDeleteMsg, FALSE)
          /\ last' = Step("delete", "done", FALSE, online, FALSE, savedNotes.val, arg,
                          NoResp, "undefined", 0, Pre)
          /\ UNCHANGED <<store, ui>>
     ELSE /\ store' = setInLocalStorage(ArrayValue(SelectNotes(savedNotes.val, noteId)))
          /\ ui' = RemoveAt(ui, i)
          /\ log' = logOperation(log, "Suppression d'une note", TRUE)
          /\ last' = Step("delete", "done", FALSE, online, FALSE, savedNotes.val, arg,
                          NoResp, "undefined", 0, Pre)
  /\ remote' = serviceAfterDelete(remote, noteId)
  /\ UNCHANGED <<online, tasks, nextId, ready>>
  /\ UNCHANGED swVars

\* --------------------------------------------------------------- loadNotes
\* mutant of notesToStore: an empty result does not replace the snapshot
notesToStoreUnlessEmpty(notes, savedNotes) ==
  IF Len(notes) # 0 THEN notes ELSE savedNotes

\* mutant of notesToStore: the fetched notes are merged into the snapshot
notesToStoreMerged(notes, savedNotes) == savedNotes \o notes

\* `app.setInLocalStorage("savedNotes", notes)` with the notes just fetched
notesToStore(notes, savedNotes) == notes

\* `notes = notes.length ? notes : savedNotes`
notesToRender(notes, savedNotes) == IF Len(notes) # 0 THEN notes ELSE savedNotes

\* app.init at DOMContentLoaded of a (re)loaded page: a new document (empty
\* containers, no handler of the previous document survives), logOperation,
\* attachDOMEvents, and loadNotes up to its await.  getFromLocalStorage is
\* outside loadNotes's try: its SyntaxError leaves loadNotes as a rejection.
init ==
  LET savedNotes == getFromLocalStorage(store)
      log0 == logOperation(<<>>, "Initialisation de l'application.", TRUE)
  IN
  /\ ready' = TRUE
  /\ IF savedNotes.threw
     THEN /\ log' = log0
          /\ ui' = <<>>
          /\ tasks' = EmptyBag
          /\ last' = Step("load", "done", FALSE, online, TRUE, <<>>, NoNote,
                          NoResp, "rejected", 0, FreshPre)
     ELSE IF isOnline
     THEN /\ log' = log0
          /\ ui' = <<>>
          /\ tasks' = SetToBag({Task("load", savedNotes.val, NoNote)})
          /\ last' = Step("load", "await", FALSE, online, FALSE, savedNotes.val, NoNote,
                          NoResp, "pending", 1, FreshPre)
     ELSE /\ ui' = addAllToUI(<<>>, notesToRender(<<>>, savedNotes.val))
          /\ log' = logOperation(log0, "Chargement des notes", TRUE)
          /\ tasks' = EmptyBag
          /\ last' = Step("load", "done", FALSE, online, FALSE, savedNotes.val, NoNote,
                          NoResp, "undefined", 0, FreshPre)
  /\ UNCHANGED <<online, store, remote, nextId>>
  /\ UNCHANGED swVars

\* loadNotes after `await NoteKeeper.getAll()`.  A payload without notes makes
\* notes undefined: setInLocalStorage stores it, then `notes.length` throws
\* outside the try.
loadNotesResume(k, outcome) ==
  LET served == getAll(outcome)
      notes == served.resp
  IN
  /\ k.op = "load"
  /\ tasks' = Resume(k)
  /\ IF notes.kind = "throw"
     THEN /\ Len(log) < MaxLog
          /\ log' = logOperation(log, LoadFailedMsg, FALSE)
          /\ last' = Step("load", "done", TRUE, k.at, FALSE, k.saved, NoNote,
                          notes, "undefined", 1, Pre)
          /\ UNCHANGED <<store, ui>>
     ELSE IF notes.kind = "undefined"
     THEN /\ store' = setInLocalStorage(UndefinedValue)
          /\ last' = Step("load", "done", TRUE, k.at, FALSE, k.saved, NoNote,
                          notes, "rejected", 1, Pre)
          /\ UNCHANGED <<ui, log>>
     ELSE /\ Len(log) < MaxLog
          /\ store' = setInLocalStorage(ArrayValue(notesToStore(notes.notes, k.saved)))
          /\ ui' = addAllToUI(ui, notesToRender(notes.notes, k.saved))
          /\ log' = logOperation(log, "Chargement des notes", TRUE)
          /\ last' = Step("load", "done", TRUE, k.at, FALSE, k.saved, NoNote,
                          notes, "undefined", 1, Pre)
  /\ UNCHANGED <<online, remote, nextId, ready>>
  /\ UNCHANGED swVars

\* ------------------------------------------------------------------- Next
Suspended == BagToSet(tasks)

Next ==
  \/ init
  \/ \E c \in CreateContents : handleCreateNote(c)
  \/ \E k \in Suspended, o \in CreateOutcomes : handleCreateNoteResume(k, o)
  \/ \E i \in 1..Len(ui), c \in UpdateContents : handleUpdateNote(i, c)
  \/ \E k \in Suspended, o \in UpdateOutcomes : handleUpdateNoteResume(k, o)
  \/ \E i \in 1..Len(ui) : handleDeleteNote(i)
  \/ \E k \in Suspended, o \in GetAllOutcomes : loadNotesResume(k, o)
  \/ \E i \in 1..Len(remote) : otherClientDelete(i)
  \/ connectivityChange

Spec == Init /\ [][Next]_vars

\* ------------------------------------------------- deletions on a loaded page
\* The page as loadNotes leaves it after an online load of a service that
\* holds the notes s: ids of 1..MaxStored, at most MaxStored notes.  The
\* client does not deduplicate what the service lists.
MaxStored == 3

RECURSIVE NoteSeqs(_)
NoteSeqs(n) ==
  IF n = 0 THEN {<<>>}
  ELSE LET shorter == NoteSeqs(n - 1) IN
       shorter \cup {Append(q, Note(id, "a")) :
                       q \in {r \in shorter : Len(r) = n - 1}, id \in 1..MaxStored}

InitLoaded ==
  /\ online = TRUE
  /\ \E s \in NoteSeqs(MaxStored) \ {<<>>} :
       /\ store = setInLocalStorage(ArrayValue(s))
       /\ ui = addAllToUI(<<>>, s)
       /\ remote = s
  /\ log = <<TRUE, TRUE>>
  /\ tasks = EmptyBag
  /\ nextId = MaxStored + 1
  /\ ready = TRUE
  /\ last = EnvStep("none")
  /\ SwIdle

NextDelete ==
  \/ \E i \in 1..Len(ui) : handleDeleteNote(i)
  \/ connectivityChange

SpecDelete == InitLoaded /\ [][NextDelete]_vars

\* ------------------------------------------- service worker (service-worker.js)
CACHE_NAME == "note-cache-j2"

urlsToCache ==
  << "/", "/index.html", "/assets/css/styles.css", "/assets/js/app.js",
     "/assets/js/api.js", "/assets/icons/icon-192x192.png",
     "/assets/icons/icon-512x512.png", "/assets/icons/favicon.png",
     "/manifest.json" >>

ManifestUrls == {urlsToCache[i] : i \in 1..Len(urlsToCache)}

\* NoteKeeper.BASE_URL: a request of the page that no manifest lists
BASE_URL == "https://notekeeper.memento-dev.fr"

\* Regions left by the generations before this one (what the activate listener
\* is there to delete), and the region of the generation after it, whose
\* manifest has one more asset.
StaleNames == {"note-cache-j0", "note-cache-j1"}
LaterName == "note-cache-j3"
LaterAsset == "/assets/js/chat.js"

\* the requests a controlled page makes
RequestUrls == ManifestUrls \cup {BASE_URL, LaterAsset}

MaxFetches == 2    \* fetch events waiting for the network at the same time

\* caches.open(name): the region of that name, created empty if missing
open(cs, name) ==
  IF \E i \in 1..Len(cs) : cs[i].name = name THEN cs ELSE Append(cs, Region(name, {}))

\* the urls of the region `name` become `urls`
WithUrls(cs, name, urls) ==
  [i \in 1..Len(cs) |-> IF cs[i].name = name THEN Region(name, urls) ELSE cs[i]]

\* the urls held by the region `name` ({} when there is no such region)
UrlsOf(cs, name) == UNION {cs[i].urls : i \in {j \in 1..Len(cs) : cs[j].name = name}}

\* mutant of addAll: one cache.add per url, each stored as soon as fetched
addEach(cs, name, bad) ==
  WithUrls(cs, name,
           UrlsOf(cs, name) \cup {urlsToCache[i] : i \in (1..Len(urlsToCache)) \ bad})

\* cache.addAll(urlsToCache) on the region `name`, the fetches of the positions
\* in `bad` failing: nothing is stored unless every fetch succeeded
addAll(cs, name, bad) ==
  IF bad = {} THEN WithUrls(cs, name, UrlsOf(cs, name) \cup ManifestUrls) ELSE cs

\* caches.keys(): the names, in creation order
keys(cs) == [i \in 1..Len(cs) |-> cs[i].name]

\* mutant of isStale: every region is deleted
isStaleAlways(cacheName) == TRUE

\* `cacheName !== CACHE_NAME`
isStale(cacheName) == cacheName # CACHE_NAME

\* Promise.all(cacheNames.map(...caches.delete(cacheName)...))
deleteStale(cs, cacheNames) ==
  SelectSeq(cs, LAMBDA r :
    ~(isStale(r.name) /\ \E i \in 1..Len(cacheNames) : cacheNames[i] = r.name))

\* caches.match(request): the first region, in creation order, that holds a
\* response for the url
match(cs, url) ==
  LET hits == {i \in 1..Len(cs) : url \in cs[i].urls} IN
  IF hits = {} THEN [hit |-> FALSE, region |-> ""]
  ELSE [hit |-> TRUE,
        region |-> cs[CHOOSE i \in hits : \A j \in hits : i <= j].name]

\* app.registerServiceWorker at a page load: the platform evaluates the script
\* and runs its install listener; a worker whose install failed is redundant
\* and the next page load registers it anew
registerServiceWorker ==
  /\ worker \in {"none", "redundant"}
  /\ worker' = "parsed"
  /\ swLast' = SwEnvStep("register")
  /\ UNCHANGED <<caches, swTasks>>
  /\ UNCHANGED appVars

\* install listener up to cache.addAll: caches.open(CACHE_NAME) has resolved
onInstall ==
  /\ worker = "parsed"
  /\ worker' = "installing"
  /\ caches' = open(caches, CACHE_NAME)
  /\ swTasks' = swTasks \cup {SwTask("install", "", <<>>)}
  /\ swLast' = SwStep("install", "await", "", FALSE, "none", "", FALSE, {}, caches)
  /\ UNCHANGED appVars

\* cache.addAll settles and with it the promise given to event.waitUntil: the
\* worker is installed, or discarded when the promise is rejected
onInstallResume(k, bad) ==
  /\ k.op = "install"
  /\ swTasks' = swTasks \ {k}
  /\ caches' = addAll(caches, CACHE_NAME, bad)
  /\ worker' = IF bad = {} THEN "installed" ELSE "redundant"
  /\ swLast' = SwStep("install", "done", "", FALSE, "none", "", FALSE, bad, caches)
  /\ UNCHANGED appVars

\* activate listener up to caches.keys()
onActivate ==
  /\ worker = "installed"
  /\ worker' = "activating"
  /\ swTasks' = swTasks \cup {SwTask("activate", "", keys(caches))}
  /\ swLast' = SwStep("activate", "await", "", FALSE, "none", "", FALSE, {}, caches)
  /\ UNCHANGED caches
  /\ UNCHANGED appVars

\* the deletions of the activate listener settle; fetch events are held back
\* by the platform until then
onActivateResume(k) ==
  /\ k.op = "activate"
  /\ swTasks' = swTasks \ {k}
  /\ caches' = deleteStale(caches, k.names)
  /\ worker' = "activated"
  /\ swLast' = SwStep("activate", "done", "", FALSE, "none", "", FALSE, {}, caches)
  /\ UNCHANGED appVars

\* fetch listener for a request of a controlled page, up to fetch(event.request)
onFetch(url) ==
  LET response == match(caches, url)
      held == url \in UrlsOf(caches, CACHE_NAME)
  IN
  /\ worker = "activated"
  /\ IF response.hit
     THEN /\ swLast' = SwStep("fetch", "done", url, held, "cache", response.region,
                              FALSE, {}, caches)
          /\ UNCHANGED swTasks
     ELSE /\ Cardinality({t \in swTasks : t.op = "fetch"}) < MaxFetches
          /\ swTasks' = swTasks \cup {SwTask("fetch", url, <<>>)}
          /\ swLast' = SwStep("fetch", "await", url, held, "none", "", TRUE, {}, caches)
  /\ UNCHANGED <<caches, worker>>
  /\ UNCHANGED appVars

\* fetch(event.request) settles: its response answers the event, or the catch
\* logs the error and the event is answered with undefined (a network error)
onFetchResume(k, ok) ==
  /\ k.op = "fetch"
  /\ swTasks' = swTasks \ {k}
  /\ swLast' = SwStep("fetch", "done", k.url, FALSE, IF ok THEN "network" ELSE "error",
                      "", TRUE, {}, caches)
  /\ UNCHANGED <<caches, worker>>
  /\ UNCHANGED appVars

\* The next version of the script is installed while this one controls the
\* pages (the "superseded" end of the state machine): its install listener
\* opens its own region and fills it.
laterVersionInstalls ==
  /\ worker = "activated"
  /\ \A i \in 1..Len(caches) : caches[i].name # LaterName
  /\ caches' = Append(caches, Region(LaterName, ManifestUrls \cup {LaterAsset}))
  /\ swLast' = SwEnvStep("later")
  /\ UNCHANGED <<worker, swTasks>>
  /\ UNCHANGED appVars

\* sequences without repetition over a set
RECURSIVE Orderings(_)
Orderings(S) ==
  IF S = {} THEN {<<>>}
  ELSE UNION {{<<x>> \o q : q \in Orderings(S \ {x})} : x \in S}

\* A browser that never ran this version: any regions of earlier generations,
\* each holding the manifest of its time; the page's state stays as Init's.
InitCache ==
  /\ online = TRUE
  /\ store = AbsentItem
  /\ ui = <<>>
  /\ log = <<>>
  /\ tasks = EmptyBag
  /\ remote = <<>>
  /\ nextId = 1
  /\ ready = FALSE
  /\ last = EnvStep("none")
  /\ \E names \in UNION {Orderings(N) : N \in SUBSET StaleNames} :
       caches = [i \in 1..Len(names) |-> Region(names[i], ManifestUrls)]
  /\ worker = "none"
  /\ swTasks = {}
  /\ swLast = SwEnvStep("none")

NextCache ==
  \/ registerServiceWorker
  \/ onInstall
  \/ \E k \in swTasks, bad \in SUBSET (1..Len(urlsToCache)) : onInstallResume(k, bad)
  \/ onActivate
  \/ \E k \in swTasks : onActivateResume(k)
  \/ \E url \in RequestUrls : onFetch(url)
  \/ \E k \in swTasks, ok \in BOOLEAN : onFetchResume(k, ok)
  \/ laterVersionInstalls

SpecCache == InitCache /\ [][NextCache]_vars

\* ==================================================================== claims
\* the handler `op` has just finished (its promise settled)
Did(op) == last.op = op /\ last.stage = "done"

\* what getFromLocalStorage("savedNotes") gives in the current state
Stored == getFromLocalStorage(store)

\* the operation log gained exactly one entry, of the given styling
LoggedOne(isSuccess) ==
  /\ Len(log) = Len(last.pre.log) + 1
  /\ SubSeq(log, 1, Len(last.pre.log)) = last.pre.log
  /\ log[Len(log)] = isSuccess

\* the step issued no request and the service saw none
NoRequest ==
  /\ last.reqs = 0
  /\ tasks = last.pre.tasks
  /\ remote = last.pre.remote

\* C1: handleCreateNote invoked offline leaves the "savedNotes" item as it was,
\* issues no request, adds no note to the UI, returns false and appends one
\* failure entry to the operation log.
C1_CreateOffline ==
  (Did("create") /\ ~last.at) =>
    /\ store = last.pre.store
    /\ NoRequest
    /\ ui = last.pre.ui
    /\ last.ret = "false"
    /\ LoggedOne(FALSE)

C1_Witness ==
  /\ Did("create") /\ ~last.at /\ ~last.threw
  /\ Len(Stored.val) > 0
  /\ Len(ui) > 0

\* C2: handleCreateNote invoked online whose create returned note n ends with
\* the stored sequence equal to the sequence it read at its start followed by
\* n, with n added to the UI, and returns true.
C2_CreateAppends ==
  (Did("create") /\ last.at /\ last.got.kind = "note") =>
    LET n == last.got.notes[1]
        read == last.saved
    IN
    /\ store.text = "json"
    /\ ~Stored.threw
    /\ Len(Stored.val) = Len(read) + 1
    /\ \A i \in 1..Len(read) : Stored.val[i] = read[i]
    /\ Stored.val[Len(read) + 1] = n
    /\ Len(ui) = Len(last.pre.ui) + 1
    /\ \A i \in 1..Len(last.pre.ui) : ui[i] = last.pre.ui[i]
    /\ ui[Len(ui)] = n
    /\ last.ret = "true"

C2_Witness ==
  /\ Did("create") /\ last.at /\ last.got.kind = "note"
  /\ Len(last.saved) > 0
  /\ Len(last.pre.ui) > 0

\* C3: handleCreateNote invoked online whose remote create fails (the request
\* throws, or the response carries no note) writes nothing to the store, adds
\* nothing to the UI, appends a failure entry to the log and returns false.
C3_CreateRemoteFailure ==
  (Did("create") /\ last.at /\ last.resumed /\ last.got.kind \in {"throw", "undefined"}) =>
    /\ store = last.pre.store
    /\ ui = last.pre.ui
    /\ LoggedOne(FALSE)
    /\ last.ret = "false"

C3_WitnessThrow ==
  Did("create") /\ last.at /\ last.resumed /\ last.got.kind = "throw"

C3_Witness ==
  /\ Did("create") /\ last.at /\ last.resumed /\ last.got.kind = "undefined"
  /\ Len(Stored.val) > 0

\* the positions where two sequences of the same length differ
Differing(s, w) == {i \in 1..Len(s) : w[i] # s[i]}

\* C4 as claimed: a confirmed online update writes a store that differs from
\* the sequence it read in exactly one position, the entry of the note's id.
C4_ExactlyOneReplaced ==
  (Did("update") /\ last.at /\ last.got.kind = "ok") =>
    /\ ~Stored.threw
    /\ Len(Stored.val) = Len(last.saved)
    /\ Cardinality(Differing(last.saved, Stored.val)) = 1
    /\ \A i \in Differing(last.saved, Stored.val) :
         last.saved[i].id = last.arg.id /\ Stored.val[i] = last.arg

\* C4 (amended): a confirmed online update writes the sequence it read with
\* every entry of the note's id replaced by the note and every other entry
\* unchanged, length and order preserved; no position changes when no entry
\* has that id or the entry already equals the note.
C4_UpdateReplacesById ==
  (Did("update") /\ last.at /\ last.got.kind = "ok") =>
    /\ store.text = "json"
    /\ ~Stored.threw
    /\ Len(Stored.val) = Len(last.saved)
    /\ \A i \in 1..Len(last.saved) :
         /\ last.saved[i].id = last.arg.id => Stored.val[i] = last.arg
         /\ last.saved[i].id # last.arg.id => Stored.val[i] = last.saved[i]

C4_Witness ==
  /\ Did("update") /\ last.at /\ last.got.kind = "ok"
  /\ Len(last.saved) = 2
  /\ Cardinality(Differing(last.saved, Stored.val)) = 1

\* C5: an online handleUpdateNote whose remote update does not confirm
\* success (response.ok false, or the request throws) writes nothing to the
\* store and appends a failure entry to the log; the store is written by an
\* update only after the remote update returned success.
C5_UpdateGatedOnRemote ==
  /\ (Did("update") /\ last.at /\ last.resumed /\ last.got.kind \in {"notok", "throw"}) =>
       /\ store = last.pre.store
       /\ LoggedOne(FALSE)
  /\ (Did("update") /\ store # last.pre.store) => last.got.kind = "ok"
  /\ (last.op = "update" /\ last.stage = "await") => store = last.pre.store

C5_Witness ==
  /\ Did("update") /\ last.at /\ last.resumed /\ last.got.kind = "notok"
  /\ \E i \in 1..Len(last.saved) :
       last.saved[i].id = last.arg.id /\ last.saved[i] # last.arg

C5_WitnessThrow ==
  /\ Did("update") /\ last.at /\ last.resumed /\ last.got.kind = "throw"
  /\ \E i \in 1..Len(last.saved) :
       last.saved[i].id = last.arg.id /\ last.saved[i] # last.arg

\* C6: handleUpdateNote or handleDeleteNote invoked offline fails at once: the
\* store item is unchanged, no request is issued, the UI note list is
\* unchanged, and one failure entry is appended to the log.
C6_UpdateDeleteOffline ==
  ((last.op \in {"update", "delete"}) /\ ~last.at) =>
    /\ last.stage = "done"
    /\ ~last.resumed
    /\ store = last.pre.store
    /\ NoRequest
    /\ ui = last.pre.ui
    /\ LoggedOne(FALSE)

C6_WitnessUpdate ==
  /\ Did("update") /\ ~last.at /\ ~last.threw
  /\ \E i \in 1..Len(Stored.val) :
       Stored.val[i].id = last.arg.id /\ Stored.val[i] # last.arg

C6_Witness ==
  /\ Did("delete") /\ ~last.at /\ ~last.threw
  /\ \E i \in 1..Len(Stored.val) : Stored.val[i].id = last.arg.id
  /\ \E i \in 1..Len(ui) : ui[i].id = last.arg.id

\* the positions of s whose entry is not of the given id
KeptIdx(s, id) == {i \in 1..Len(s) : s[i].id # id}

\* the j-th of them, in order
NthKept(s, id, j) ==
  CHOOSE i \in KeptIdx(s, id) : Cardinality({m \in KeptIdx(s, id) : m <= i}) = j

\* C7: handleDeleteNote(id) invoked online on a stored sequence leaves the
\* store holding that sequence without every entry of that id, the other
\* entries kept in order; it waits for no answer of the service.  (Deleting
\* 1 and 3 from <<1, 2, 3>> leaves <<2>>: C7_Witness.)
C7_DeleteFilters ==
  (Did("delete") /\ last.at /\ ~last.threw) =>
    /\ ~last.resumed
    /\ store.text = "json"
    /\ ~Stored.threw
    /\ \A j \in 1..Len(Stored.val) : Stored.val[j].id # last.arg.id
    /\ Len(Stored.val) = Cardinality(KeptIdx(last.saved, last.arg.id))
    /\ \A j \in 1..Len(Stored.val) :
         Stored.val[j] = last.saved[NthKept(last.saved, last.arg.id, j)]

C7_Witness ==
  /\ Did("delete") /\ last.at
  /\ remote = <<Note(1, "a"), Note(2, "a"), Note(3, "a")>>
  /\ last.saved = <<Note(2, "a"), Note(3, "a")>>
  /\ last.arg.id = 3
  /\ Stored.val = <<Note(2, "a")>>
  /\ ui = <<Note(2, "a")>>

C7_WitnessDuplicates ==
  /\ Did("delete") /\ last.at
  /\ last.saved = <<Note(1, "a"), Note(2, "a"), Note(1, "a")>>
  /\ Stored.val = <<Note(2, "a")>>

\* C8: loadNotes run online whose fetch returned the sequence R (the empty
\* one included) leaves the store holding exactly R.
C8_LoadReplacesAll ==
  (Did("load") /\ last.at /\ last.resumed /\ last.got.kind = "notes") =>
    /\ store.text = "json"
    /\ ~Stored.threw
    /\ Stored.val = last.got.notes

C8_Witness ==
  /\ Did("load") /\ last.at /\ last.got.kind = "notes"
  /\ last.got.notes = <<>>
  /\ Len(last.saved) > 0
  /\ getFromLocalStorage(last.pre.store).val # <<>>

C8_WitnessOther ==
  /\ Did("load") /\ last.at /\ last.got.kind = "notes"
  /\ Len(last.got.notes) > 0
  /\ \E i \in 1..Len(last.saved) :
       \A j \in 1..Len(last.got.notes) : last.got.notes[j] # last.saved[i]

\* C9 as claimed: loadNotes run online whose fetch throws leaves the store
\* untouched and renders the notes of the snapshot it read.
C9_LoadFailureFallsBack ==
  (Did("load") /\ last.at /\ last.resumed /\ last.got.kind = "throw") =>
    /\ store = last.pre.store
    /\ ui = last.pre.ui \o last.saved

\* C10 as claimed: a completed loadNotes has rendered exactly its resulting
\* sequence, once and in order (the fetched sequence online, the snapshot
\* offline), and the rendered notes equal the stored ones.
C10_RendersResult ==
  (Did("load") /\ last.ret = "undefined" /\ (~last.at \/ last.got.kind = "notes")) =>
    LET result == IF last.at THEN last.got.notes ELSE last.saved IN
    /\ ui = last.pre.ui \o result
    /\ ui = last.pre.ui \o Stored.val

\* the set of notes of a sequence
NoteSet(s) == {s[i] : i \in 1..Len(s)}

\* C11: after a loadNotes that ran online and whose fetch gave the service's
\* notes, the set of notes in the store equals the set of notes the service
\* holds at that load, whatever creates succeeded before it.
C11_LoadAgreesWithRemote ==
  (Did("load") /\ last.at /\ last.resumed /\ last.got.kind = "notes") =>
    /\ ~Stored.threw
    /\ NoteSet(Stored.val) = NoteSet(remote)
    /\ remote = last.pre.remote

\* two creates succeeded at the service, the store read by the load held only
\* one of the notes, and the load brought the other one in
C11_Witness ==
  /\ Did("load") /\ last.at /\ last.resumed /\ last.got.kind = "notes"
  /\ Cardinality(NoteSet(remote)) = 2
  /\ Cardinality(NoteSet(last.saved)) = 1
  /\ NoteSet(last.saved) \subseteq NoteSet(remote)
  /\ NoteSet(Stored.val) = NoteSet(remote)

\* C12 as claimed: whenever the "savedNotes" item is absent or holds something
\* other than the JSON text of an array (the text left by setInLocalStorage of
\* undefined included), getFromLocalStorage gives the empty sequence and does
\* not throw.
C12_GetNeverThrows ==
  (store.text # "json") =>
    /\ ~getFromLocalStorage(store).threw
    /\ getFromLocalStorage(store).val = <<>>

\* the handler step just taken met one of the failures of the claim: an error
\* reading the store, an offline rejection (loadNotes has none: offline it
\* renders the snapshot), a thrown request, a payload without the expected
\* field, or a response that is not ok
MetFailure ==
  /\ last.op \in {"create", "update", "delete", "load"}
  /\ last.stage = "done"
  /\ \/ last.threw
     \/ last.op # "load" /\ ~last.at
     \/ last.got.kind \in {"throw", "undefined", "notok"}

\* C13 as claimed: a handler that met a failure has ended with one
\* failure-styled entry appended to the operation log and with a promise that
\* is not rejected.
C13_FailuresCaught ==
  MetFailure =>
    /\ last.ret # "rejected"
    /\ LoggedOne(FALSE)

\* the ids of a sequence of notes, in order
Ids(s) == [i \in 1..Len(s) |-> s[i].id]

\* the service keeps its side of C14's assumption: no two of its notes share
\* an id, and every id it handed out is below nextId
RemoteIdsFresh ==
  /\ \A i, j \in 1..Len(remote) : i # j => remote[i].id # remote[j].id
  /\ \A i \in 1..Len(remote) : remote[i].id < nextId

\* C14: with a service that hands out fresh ids and lists no id twice, no two
\* entries of the store have the same id in any reachable state, and the
\* operations that keep entries keep their ids: an update writes the ids it
\* read, position by position, and a create writes the ids it read followed
\* by the new one.
C14_IdsUniqueAndStable ==
  /\ RemoteIdsFresh
  /\ ~Stored.threw =>
       \A i, j \in 1..Len(Stored.val) : i # j => Stored.val[i].id # Stored.val[j].id
  /\ (Did("update") /\ store # last.pre.store) => Ids(Stored.val) = Ids(last.saved)
  /\ (Did("create") /\ store # last.pre.store) =>
       SubSeq(Ids(Stored.val), 1, Len(last.saved)) = Ids(last.saved)

\* an update that overlapped another write has just rewritten a store of two
\* entries, changing the content of one
C14_Witness ==
  /\ Did("update") /\ last.got.kind = "ok"
  /\ Len(Stored.val) = 2
  /\ Stored.val[1].id # Stored.val[2].id
  /\ Stored.val # last.saved
  /\ getFromLocalStorage(last.pre.store).val # last.saved

\* the install listener has just settled
Installed == swLast.op = "install" /\ swLast.stage = "done"

\* C15: install is all-or-nothing.  When the fetch of any manifest URL failed,
\* the install step fails (the worker is discarded) and the region CACHE_NAME
\* holds no entry, those whose fetch succeeded included; when every fetch
\* succeeded, the region holds exactly the manifest URLs.
C15_InstallAllOrNothing ==
  Installed =>
    IF swLast.bad # {}
    THEN /\ worker = "redundant"
         /\ UrlsOf(caches, CACHE_NAME) = {}
    ELSE /\ worker = "installed"
         /\ UrlsOf(caches, CACHE_NAME) = ManifestUrls
         /\ \E i \in 1..Len(caches) : caches[i].name = CACHE_NAME

\* of the manifest, only the fetch of "/index.html" failed
C15_Witness ==
  /\ Installed
  /\ swLast.bad = {2}
  /\ \E i \in 1..Len(caches) : caches[i] = Region(CACHE_NAME, {})

\* a retry after a failed install succeeded
C15_WitnessAll ==
  /\ Installed
  /\ swLast.bad = {}
  /\ \E i \in 1..Len(swLast.pre) : swLast.pre[i] = Region(CACHE_NAME, {})
  /\ Len(caches) = 3

\* the regions of cs named CACHE_NAME, in order
CurrentOnly(cs) == SelectSeq(cs, LAMBDA r : r.name = CACHE_NAME)

\* C16: when the activate listener has settled, every region whose name is not
\* CACHE_NAME is gone and the region CACHE_NAME is there with the entries it
\* had.
C16_ActivatePurgesStale ==
  (swLast.op = "activate" /\ swLast.stage = "done") =>
    /\ \A i \in 1..Len(caches) : caches[i].name = CACHE_NAME
    /\ caches = CurrentOnly(swLast.pre)
    /\ Len(caches) = 1
    /\ UrlsOf(caches, CACHE_NAME) = UrlsOf(swLast.pre, CACHE_NAME)

\* regions {j1, j2-current}: only j1 was deleted
C16_Witness ==
  /\ swLast.op = "activate" /\ swLast.stage = "done"
  /\ swLast.pre = << Region("note-cache-j1", ManifestUrls),
                     Region(CACHE_NAME, ManifestUrls) >>
  /\ caches = << Region(CACHE_NAME, ManifestUrls) >>

\* two stale generations were deleted
C16_WitnessTwo ==
  /\ swLast.op = "activate" /\ swLast.stage = "done"
  /\ Len(swLast.pre) = 3
  /\ caches = << Region(CACHE_NAME, ManifestUrls) >>

\* C17 as claimed: a fetch event whose URL the region CACHE_NAME holds is
\* answered from that region without a network fetch; any other event is
\* answered by a live network fetch; a region of another name is never the
\* source of an answer.
C17_ServesCurrentRegionOnly ==
  (swLast.op = "fetch" /\ swLast.stage = "done") =>
    /\ swLast.held => (swLast.source = "cache" /\ swLast.region = CACHE_NAME
                        /\ ~swLast.fetched)
    /\ ~swLast.held => (swLast.fetched /\ swLast.source \in {"network", "error"})
    /\ swLast.source = "cache" => swLast.region = CACHE_NAME

\* what the store held when the step just taken started
PreStored == getFromLocalStorage(last.pre.store).val

\* the note a create or update that succeeded has written
Written == IF last.op = "create" THEN last.got.notes[1] ELSE last.arg

\* C18: the read-modify-write of "savedNotes" is not atomic across the await.
\* A create or update writes its snapshot plus its own note: every note that
\* another operation put in the store between this one's read and its write
\* is gone after the write.  The race is reachable (C18_Witness): two creates
\* overlap, both succeed at the service, and the store holds only the note of
\* the one that resumed last.
C18_StaleSnapshotOverwrites ==
  (last.op \in {"create", "update"} /\ last.stage = "done" /\ last.resumed
     /\ store # last.pre.store) =>
    \A x \in NoteSet(PreStored) \ NoteSet(last.saved) :
      x # Written => x \notin NoteSet(Stored.val)

C18_Witness ==
  /\ Did("create") /\ last.resumed /\ last.got.kind = "note"
  /\ last.saved = <<>>
  /\ Len(PreStored) = 1
  /\ Len(remote) = 2
  /\ NoteSet(PreStored) \subseteq NoteSet(remote)
  /\ Stored.val = <<last.got.notes[1]>>
  /\ PreStored # Stored.val

\* an update overlapped a create and dropped the created note
C18_WitnessUpdate ==
  /\ Did("update") /\ last.resumed /\ last.got.kind = "ok"
  /\ Len(PreStored) = 2
  /\ Len(Stored.val) = 1

\* the ids of the notes of a sequence, as a set
IdSet(s) == {s[i].id : i \in 1..Len(s)}

\* C19 as claimed, for an update in flight when its note was deleted: the note
\* element of an update is gone from the list only through an online
\* handleDeleteNote of that id, which also filtered the id out of the store, and
\* no loadNotes ran since (a page load leaves no handler in flight); the
\* update that resumes does not put the note back.
C19_DeletedStaysAbsent ==
  (Did("update") /\ last.resumed /\ last.arg.id \notin IdSet(ui)) =>
    last.arg.id \notin IdSet(Stored.val)

\* C19 (amended): a create or update puts back an id that the store lacked
\* only out of its own snapshot, read before its await (so a handler invoked
\* after the delete completed, when the store lacked the id, does not put it
\* back, one in flight during the delete does); the other id a create adds is
\* the fresh one of its note.
C19_OnlyStaleSnapshotRestores ==
  (last.op \in {"create", "update"} /\ last.stage = "done") =>
    \A x \in IdSet(Stored.val) \ IdSet(PreStored) :
      \/ x \in IdSet(last.saved)
      \/ /\ last.op = "create" /\ last.got.kind = "note"
         /\ x = last.got.notes[1].id
         /\ x \notin IdSet(last.pre.remote)

\* an update in flight while its note was deleted has put the note back
C19_Witness ==
  /\ Did("update") /\ last.resumed /\ last.got.kind = "ok"
  /\ last.arg.id \in IdSet(last.saved)
  /\ last.arg.id \notin IdSet(PreStored)
  /\ last.arg.id \notin IdSet(ui)
  /\ last.arg.id \in IdSet(Stored.val)

\* a create in flight during a delete has put the deleted note back
C19_WitnessCreate ==
  /\ Did("create") /\ last.resumed /\ last.got.kind = "note"
  /\ \E x \in IdSet(last.saved) :
       x \notin IdSet(PreStored) /\ x \notin IdSet(ui) /\ x \in IdSet(Stored.val)

\* C20: handleDeleteNote issues no request on any of its paths and leaves the
\* service's notes as they were; a later loadNotes that runs online and gets a
\* non-empty result then stores every note the service holds, the notes
\* deleted locally included.
C20_DeleteIsLocalOnly ==
  /\ last.op = "delete" =>
       /\ last.stage = "done"
       /\ ~last.resumed
       /\ NoRequest
  /\ (Did("load") /\ last.at /\ last.resumed /\ last.got.kind = "notes"
        /\ last.got.notes # <<>>) =>
       \A x \in NoteSet(remote) : x \in NoteSet(Stored.val)

\* an online delete removed from the store a note that the service still holds
C20_Witness ==
  /\ Did("delete") /\ last.at /\ ~last.threw
  /\ last.arg.id \in IdSet(last.saved)
  /\ last.arg.id \notin IdSet(Stored.val)
  /\ last.arg.id \in IdSet(remote)
  /\ remote = last.pre.remote

\* a load has brought back a note of the service that the store lacked
C20_WitnessRestored ==
  /\ Did("load") /\ last.at /\ last.resumed /\ last.got.kind = "notes"
  /\ getFromLocalStorage(last.pre.store).val = <<>>
  /\ last.pre.store.text = "json"
  /\ Len(Stored.val) > 0
  /\ Stored.val = remote

C21_WitnessEvent ==
  /\ last.op = "offline"
  /\ tasks # EmptyBag
  /\ Len(Stored.val) > 0
  /\ Len(ui) > 0

\* the requests in flight grew by n over the step just taken
InFlightGrewBy(n) == BagCardinality(tasks) = BagCardinality(last.pre.tasks) + n

\* C22 as claimed: an invocation of handleCreateNote, handleUpdateNote or
\* loadNotes issues at most one request, exactly one when invoked online, and
\* its continuation issues none, whether the request failed or not.
C22_OneRequestPerInvocation ==
  last.op \in {"create", "update", "load"} =>
    /\ last.reqs <= 1
    /\ last.at => last.reqs = 1
    /\ (~last.resumed /\ last.at) => (last.stage = "await" /\ InFlightGrewBy(1))
    /\ (~last.resumed /\ ~last.at) => (last.stage = "done" /\ InFlightGrewBy(0))
    /\ last.resumed => (last.stage = "done" /\ InFlightGrewBy(-1))

====
